---- MODULE Spec2Model ----
(***************************************************************************)
(* Portfolio backtesting engine of the trading dashboard (Backtesting page *)
(* component): the leverage sizer, the risk-ratio calculator and the       *)
(* handleRunBacktest handler with its two awaited fetches, the bar-by-bar  *)
(* simulation loop, the equity-curve builder and the result assembly.      *)
(*                                                                         *)
(* JavaScript numbers are modelled as exact rationals <<n, d>> (d > 0, in  *)
(* lowest terms); Math.pow / Math.sqrt results, which are irrational, are  *)
(* modelled by their IEEE class (NaN, +-Infinity, finite).                 *)
(***************************************************************************)
EXTENDS Integers, Sequences, FiniteSets

VARIABLES
    \* ---- React state of the Backtesting component
    selectedStrategyIds, initialCapital, commission, slippage, useWeeklyBias,
    timeframe, isLoading, results, error,
    \* ---- position and locals of the running handleRunBacktest call
    pc, selectedStrategies, dataResult, sIdx, i, allTrades, dailyPnl,
    \* ---- a direct call of one of the pure functions: arguments, return value
    fnArgs, fnRet

vars == <<selectedStrategyIds, initialCapital, commission, slippage, useWeeklyBias,
          timeframe, isLoading, results, error,
          pc, selectedStrategies, dataResult, sIdx, i, allTrades, dailyPnl,
          fnArgs, fnRet>>

compVars == <<selectedStrategyIds, initialCapital, commission, slippage, useWeeklyBias,
              timeframe, isLoading, results, error,
              pc, selectedStrategies, dataResult, sIdx, i, allTrades, dailyPnl>>

(***************************************************************************)
(* Number arithmetic: exact rationals.                                     *)
(***************************************************************************)
Abs(n) == IF n < 0 THEN -n ELSE n

RECURSIVE GCD(_, _)
GCD(a, b) == IF b = 0 THEN a ELSE GCD(b, a % b)

\* the rational n/d (d # 0) in lowest terms with a positive denominator
Rat(n, d) ==
    LET g == GCD(Abs(n), Abs(d))
        s == IF d < 0 THEN -1 ELSE 1
    IN  <<(s * n) \div g, (s * d) \div g>>

RInt(n) == <<n, 1>>
Zero == <<0, 1>>

\* sum over the least common denominator
RAdd(a, b) ==
    LET g == GCD(a[2], b[2])
    IN  Rat(a[1] * (b[2] \div g) + b[1] * (a[2] \div g), (a[2] \div g) * b[2])
RNeg(a) == <<-a[1], a[2]>>
RSub(a, b) == RAdd(a, RNeg(b))

\* cross-cancelled product, so that intermediate products stay small
RMul(a, b) ==
    LET g1 == GCD(Abs(a[1]), b[2])
        g2 == GCD(Abs(b[1]), a[2])
    IN  Rat((a[1] \div g1) * (b[1] \div g2), (a[2] \div g2) * (b[2] \div g1))

\* a / b for b # 0
RDiv(a, b) == RMul(a, IF b[1] < 0 THEN <<-b[2], -b[1]>> ELSE <<b[2], b[1]>>)

\* comparisons over the least common denominator
RLt(a, b) ==
    LET g == GCD(a[2], b[2]) IN a[1] * (b[2] \div g) < b[1] * (a[2] \div g)
RLe(a, b) ==
    LET g == GCD(a[2], b[2]) IN a[1] * (b[2] \div g) <= b[1] * (a[2] \div g)
RMin(a, b) == IF RLt(b, a) THEN b ELSE a
RMax(a, b) == IF RLt(a, b) THEN b ELSE a

RFloor(a) == a[1] \div a[2]

\* Math.round: the nearest integer, a tie going to +Infinity
MathRound(x) == RFloor(RAdd(x, <<1, 2>>))

(***************************************************************************)
(* Leverage sizer                                                          *)
(***************************************************************************)
minRR == <<5, 2>>
maxRR == <<5, 1>>

\* the sizer with the result truncated instead of rounded
calculateDynamicLeverageFloor(rr, maxLeverage) ==
    LET clampedRR == RMin(rr, maxRR)
        rrRange == RSub(maxRR, minRR)
        leverageRange == maxLeverage - 2
    IN  IF RLe(rrRange, Zero) \/ leverageRange <= 0 THEN 2
        ELSE RFloor(RMin(RAdd(RInt(2),
                 RMul(RDiv(RSub(clampedRR, minRR), rrRange), RInt(leverageRange))),
                 RInt(maxLeverage)))

calculateDynamicLeverage(rr, maxLeverage) ==
    LET clampedRR == RMin(rr, maxRR)
        rrRange == RSub(maxRR, minRR)
        leverageRange == maxLeverage - 2
    IN  IF RLe(rrRange, Zero) \/ leverageRange <= 0 THEN 2
        ELSE LET leverage == RAdd(RInt(2),
                     RMul(RDiv(RSub(clampedRR, minRR), rrRange), RInt(leverageRange)))
             IN  MathRound(RMin(leverage, RInt(maxLeverage)))

(***************************************************************************)
(* Constants of the application, cut down to the symbols the model trades. *)
(***************************************************************************)
\* ASSET_UNIVERSE_TICKER_MAP with one representative ticker per universe
ASSET_UNIVERSE_TICKER_MAP ==
    [u \in {"S&P 500", "Commodities"} |->
        IF u = "S&P 500" THEN <<"AAPL">> ELSE <<"GLD">>]

\* SYMBOL_TO_ASSET_CLASS_MAP.get(symbol) || AssetClass.USStocks
AssetClassOf(symbol) ==
    IF symbol = "AAPL" THEN "US Stocks"
    ELSE IF symbol = "GLD" THEN "Commodities"
    ELSE "US Stocks"

ASSET_LEVERAGE_MAP ==
    [c \in {"US Stocks", "Global Stocks", "UK Stocks", "EU Stocks", "Asian Stocks",
            "Crypto", "Commodities", "Forex", "Bonds", "Indices"} |->
        CASE c \in {"US Stocks", "Global Stocks", "UK Stocks", "EU Stocks", "Asian Stocks"} -> 5
          [] c = "Crypto" -> 10
          [] c \in {"Commodities", "Indices"} -> 20
          [] OTHER -> 30]

getSimulationParams(tf) ==
    CASE tf = "5Min"  -> [barsPerYear |-> 252 * 7 * 12, tradeProbability |-> <<1, 500>>, holdingTime |-> "5-60m"]
      [] tf = "15Min" -> [barsPerYear |-> 252 * 7 * 4, tradeProbability |-> <<7, 1000>>, holdingTime |-> "15-180m"]
      [] tf = "1Hour" -> [barsPerYear |-> 252 * 7, tradeProbability |-> <<3, 100>>, holdingTime |-> "1-8h"]
      [] OTHER        -> [barsPerYear |-> 252, tradeProbability |-> <<1, 5>>, holdingTime |-> "1-5d"]

\* the strategies saved in the application context (useApp().savedStrategies)
savedStrategies ==
    << [id |-> "s1", assetUniverses |-> <<"Commodities">>, customSymbols |-> <<>>,
        stopLossPercentage |-> <<10, 1>>],
       [id |-> "s2", assetUniverses |-> <<"S&P 500">>, customSymbols |-> <<"GLD">>,
        stopLossPercentage |-> <<4, 1>>],
       [id |-> "s3", assetUniverses |-> <<>>, customSymbols |-> <<>>,
        stopLossPercentage |-> <<2, 1>>] >>

(***************************************************************************)
(* Historical bars.  A bar is [t, o, h, l, c]; its timestamp t is the ISO  *)
(* string "<date>T<time>", kept as the pair <<date, time>>.  A date is the  *)
(* zero-padded day of the month as a string of two digits (the constant    *)
(* "yyyy-mm-" prefix is left out).                                         *)
(***************************************************************************)
\* bars of a series after the 5-bar lookback window
MaxBars == 2

\* strategies selected at once, and trades simulated in one run
MaxSelected == 2
MaxTrades == 2

DateStr(n) == <<n \div 10, n % 10>>

\* t.split('T')[0]
DateOf(t) == t[1]

\* String comparison by code units, as Array.prototype.sort() does by default
RECURSIVE StrLess(_, _)
StrLess(a, b) ==
    IF b = <<>> THEN FALSE
    ELSE IF a = <<>> THEN TRUE
    ELSE IF a[1] # b[1] THEN a[1] < b[1]
    ELSE StrLess(Tail(a), Tail(b))

\* the shapes <<o, h, l, c>> of the bars the provider returns
FlatBar == <<100, 100, 100, 100>>
WideBar == <<100, 200, 50, 110>>
HighBar == <<100, 115, 97, 110>>

Bar(day, time, shape) ==
    [t |-> <<DateStr(day), time>>, o |-> RInt(shape[1]), h |-> RInt(shape[2]),
     l |-> RInt(shape[3]), c |-> RInt(shape[4])]

\* five flat bars on day first - 1, then one bar per shape: either one bar a
\* day from day first on, or all of them on day first
Series(first, shapes, sameDay) ==
    [k \in 1..(5 + Len(shapes)) |->
        IF k <= 5 THEN Bar(first - 1, k, FlatBar)
        ELSE Bar(first + (IF sameDay THEN 0 ELSE k - 6), k, shapes[k - 5])]

ShapeSeqs(n, shapes) == UNION {[1..k -> shapes] : k \in 1..n}

(***************************************************************************)
(* Helpers on arrays, Sets and objects                                     *)
(***************************************************************************)
Range(seq) == {seq[k] : k \in DOMAIN seq}

\* [...new Set(seq)]: the first occurrence of every element, in order
RECURSIVE Dedupe(_)
Dedupe(seq) ==
    IF seq = <<>> THEN <<>>
    ELSE LET init == Dedupe(SubSeq(seq, 1, Len(seq) - 1))
             last == seq[Len(seq)]
         IN  IF last \in Range(init) THEN init ELSE Append(init, last)

\* seqs.flatMap(x => x)
RECURSIVE Flatten(_)
Flatten(seqs) == IF seqs = <<>> THEN <<>> ELSE Head(seqs) \o Flatten(Tail(seqs))

\* [...new Set([...s.assetUniverses.flatMap(u => TICKER_MAP[u]), ...s.customSymbols])]
strategySymbolsOf(strategy) ==
    Dedupe(Flatten([k \in DOMAIN strategy.assetUniverses |->
                       ASSET_UNIVERSE_TICKER_MAP[strategy.assetUniverses[k]]])
           \o strategy.customSymbols)

\* savedStrategies.filter(s => selectedStrategyIds.includes(s.id))
SelectedOf(ids) ==
    LET In(st) == st.id \in ids IN SelectSeq(savedStrategies, In)

\* [...new Set(['SPY', ...allSymbols])]
symbolsToFetchOf(strategies) ==
    Dedupe(<<"SPY">> \o
           Dedupe(Flatten([k \in DOMAIN strategies |-> strategySymbolsOf(strategies[k])])))

\* strategySymbols.filter(s => data[s] && data[s].length > 5)
availableSymbolsOf(strategy, data) ==
    LET Ok(sym) == sym \in DOMAIN data /\ Len(data[sym]) > 5
    IN  SelectSeq(strategySymbolsOf(strategy), Ok)

(***************************************************************************)
(* The price-bar provider: what fetchStockHistoricalData may resolve to.   *)
(***************************************************************************)
\* the benchmark series: a bar on day 5 and one on day 7, none on days 6 and 8
SpySeries == <<Bar(5, 0, <<100, 100, 100, 100>>), Bar(7, 0, <<120, 120, 120, 120>>)>>

\* what the provider may return for a symbol: nothing (<<>>), five bars (no
\* more than the lookback window), or up to MaxBars more.  AAPL bars are one a
\* day from day 6 on; GLD bars are flat and all on day 8.
ProviderSeries(sym) ==
    CASE sym = "SPY" -> {<<>>, SpySeries}
      [] sym = "GLD" ->
           {<<>>} \cup {Series(8, sh, TRUE) : sh \in ShapeSeqs(MaxBars, {FlatBar})}
      [] OTHER ->
           {<<>>, SubSeq(Series(6, <<WideBar>>, FALSE), 1, 5)}
               \cup {Series(6, sh, FALSE) : sh \in ShapeSeqs(MaxBars, {WideBar, HighBar})}

\* the object {} and the object d with d[sym] = series added
EmptyObj == [x \in {} |-> <<>>]

WithSeries(d, sym, series) ==
    IF series = <<>> THEN d
    ELSE [x \in DOMAIN d \cup {sym} |-> IF x = sym THEN series ELSE d[x]]

\* every object holding, for each requested symbol the provider could serve,
\* one of the series it may return for it
RECURSIVE DataChoices(_)
DataChoices(symbols) ==
    IF symbols = <<>> THEN {EmptyObj}
    ELSE {WithSeries(d, Head(symbols), series) :
             d \in DataChoices(Tail(symbols)),
             series \in ProviderSeries(Head(symbols))}

FetchResults(symbols) ==
    {[success |-> FALSE, data |-> EmptyObj]}
        \cup {[success |-> TRUE, data |-> d] : d \in DataChoices(symbols)}

(***************************************************************************)
(* The daily P&L object: its properties <<date, value>> in insertion order *)
(***************************************************************************)
DailyKeys(obj) == [k \in DOMAIN obj |-> obj[k][1]]

DailyHas(obj, date) == \E k \in DOMAIN obj : obj[k][1] = date

DailyGet(obj, date) == obj[CHOOSE k \in DOMAIN obj : obj[k][1] = date][2]

DailySet(obj, date, value) ==
    IF DailyHas(obj, date)
    THEN [k \in DOMAIN obj |-> IF obj[k][1] = date THEN <<date, value>> ELSE obj[k]]
    ELSE Append(obj, <<date, value>>)

\* dailyPnl[date] = 0, whatever the date held
DailyReset(obj, date) == DailySet(obj, date, Zero)

\* dailyPnl[date] = dailyPnl[date] || 0
DailyTouch(obj, date) ==
    IF DailyHas(obj, date) /\ DailyGet(obj, date) # Zero THEN obj
    ELSE DailySet(obj, date, Zero)

\* keys.sort(): insertion sort under the default string order
RECURSIVE SortStrings(_)
SortStrings(seq) ==
    IF seq = <<>> THEN <<>>
    ELSE LET rest == SortStrings(Tail(seq))
             x == Head(seq)
             n == Cardinality({k \in DOMAIN rest : StrLess(rest[k], x)})
         IN  SubSeq(rest, 1, n) \o <<x>> \o SubSeq(rest, n + 1, Len(rest))

(***************************************************************************)
(* Risk metrics calculator.  Math.pow and Math.sqrt are not computed: a    *)
(* value that depends on them is kept as its IEEE class, one of "nan",     *)
(* "+inf", "-inf", "finite"; the literal 0 the code substitutes is "0".    *)
(***************************************************************************)
RECURSIVE SumR(_)
SumR(seq) == IF seq = <<>> THEN Zero ELSE RAdd(Head(seq), SumR(Tail(seq)))

\* Math.max(...values): -Infinity for no argument
RECURSIVE MathMax(_)
MathMax(values) ==
    IF values = <<>> THEN "-inf"
    ELSE IF Len(values) = 1 THEN values[1]
    ELSE RMax(Head(values), MathMax(Tail(values)))

\* the drawdown of the last point
lastDrawdownOf(performanceData) == performanceData[Len(performanceData)].drawdown

\* Math.max(...performanceData.map(d => d.drawdown || 0)); every point of the
\* model carries a drawdown number, on which "|| 0" changes nothing
maxDrawdownOf(performanceData) ==
    MathMax([k \in DOMAIN performanceData |-> performanceData[k].drawdown])

\* performanceData.slice(1).map((point, i) => prevValue > 0 ? ... : 0)
dailyReturnsOf(performanceData) ==
    [k \in 1..(Len(performanceData) - 1) |->
        LET prevValue == performanceData[k].strategy
            point == performanceData[k + 1]
        IN  IF RLt(Zero, prevValue)
            THEN RDiv(RSub(point.strategy, prevValue), prevValue)
            ELSE Zero]

\* the class of last / first
GrowthClass(first, last) ==
    IF first # Zero THEN "finite"
    ELSE IF RLt(Zero, last) THEN "+inf"
    ELSE IF RLt(last, Zero) THEN "-inf"
    ELSE "nan"

\* the class of Math.pow(last / first, barsPerYear / n) - 1; powOverflows tells
\* whether a power of a base of magnitude above 1 exceeds the double range
annualizedReturnClass(first, last, barsPerYear, n, powOverflows) ==
    LET g == GrowthClass(first, last)
        isInt == barsPerYear % n = 0
        isOdd == isInt /\ (barsPerYear \div n) % 2 = 1
        base == RDiv(last, first)
    IN  CASE g = "nan" -> "nan"
          [] g = "+inf" -> "+inf"
          [] g = "-inf" -> IF isOdd THEN "-inf" ELSE "+inf"
          [] OTHER ->
               IF RLt(base, Zero) /\ ~isInt THEN "nan"
               ELSE IF powOverflows /\ (RLt(RInt(1), base) \/ RLt(base, RInt(-1)))
                    THEN (IF RLt(base, Zero) /\ isOdd THEN "-inf" ELSE "+inf")
                    ELSE "finite"

\* the value passed on without the isFinite test
PassedOn(x) == x

\* isFinite(x) ? x : 0
FiniteOrZero(x) == IF x \in {"nan", "+inf", "-inf"} THEN "0" ELSE x

\* returns that are not zero
nonZeroReturnsOf(dailyReturns) == SelectSeq(dailyReturns, LAMBDA r : r # Zero)

\* dailyReturns.filter(r => r < 0)
downsideReturnsOf(dailyReturns) == SelectSeq(dailyReturns, LAMBDA r : RLt(r, Zero))

calculateAdvancedRatios(performanceData, riskFreeRate, barsPerYear, powOverflows) ==
    IF Len(performanceData) < 2 THEN [sortino |-> "0", calmar |-> "0"]
    ELSE
        LET dailyReturns == dailyReturnsOf(performanceData)
            annualizedReturn ==
                annualizedReturnClass(performanceData[1].strategy,
                    performanceData[Len(performanceData)].strategy,
                    barsPerYear, Len(dailyReturns), powOverflows)
            \* Sortino: the deviation is positive exactly when some return is
            \* negative; the quotient has the class of its numerator
            downsideReturns == downsideReturnsOf(dailyReturns)
            sortino == IF downsideReturns # <<>> THEN annualizedReturn ELSE "0"
            \* Calmar
            maxDrawdown == maxDrawdownOf(performanceData)
            calmar == IF RLt(Zero, maxDrawdown) THEN annualizedReturn ELSE "0"
        IN  [sortino |-> FiniteOrZero(sortino), calmar |-> FiniteOrZero(calmar)]

(***************************************************************************)
(* Bar-level trade simulation                                              *)
(***************************************************************************)
\* the target ratios with the upper end included
RRChoicesClosed == {<<5, 2>>, <<19, 4>>, <<5, 1>>}

\* target ratios drawn from 2 on
RRChoicesFromTwo == {<<2, 1>>, <<19, 4>>}

\* 2.5 + Math.random() * 2.5, Math.random() in [0, 1): the lower end and an
\* inner value
RRChoices == {<<5, 2>>, <<19, 4>>}

\* a percentage taken as a fraction
PercentAsFraction(x) == x

\* x / 100
Percent(x) == RDiv(x, RInt(100))

\* symbolBars.slice(i - 5, i).reduce((sum, p) => sum + p.c, 0) / 5
weeklySmaOf(symbolBars, idx) ==
    RDiv(SumR([k \in 1..5 |-> symbolBars[idx - 5 + k].c]), RInt(5))

\* the trend test passed by a close level with the average
isUptrendOrLevel(currentBar, weeklySma) == RLe(weeklySma, currentBar.c)

\* currentBar.c > weeklySma
isUptrendOf(currentBar, weeklySma) == RLt(weeklySma, currentBar.c)

\* exit resolution with the take-profit test first
resolveExitTargetFirst(currentBar, stopLossPrice, takeProfitPrice) ==
    IF RLe(takeProfitPrice, currentBar.h)
    THEN [exitPrice |-> takeProfitPrice, exitReason |-> "TP"]
    ELSE IF RLe(currentBar.l, stopLossPrice)
    THEN [exitPrice |-> stopLossPrice, exitReason |-> "SL"]
    ELSE [exitPrice |-> currentBar.c, exitReason |-> "EOD"]

resolveExit(currentBar, stopLossPrice, takeProfitPrice) ==
    IF RLe(currentBar.l, stopLossPrice)
    THEN [exitPrice |-> stopLossPrice, exitReason |-> "SL"]
    ELSE IF RLe(takeProfitPrice, currentBar.h)
    THEN [exitPrice |-> takeProfitPrice, exitReason |-> "TP"]
    ELSE [exitPrice |-> currentBar.c, exitReason |-> "EOD"]

\* the outcome tag with a break-even trade counted as a win
tradeTypeBreakEvenWins(netPnl) == IF RLe(Zero, netPnl) THEN "WIN" ELSE "LOSS"

\* netPnl > 0 ? 'WIN' : 'LOSS'
tradeTypeOf(netPnl) == IF RLt(Zero, netPnl) THEN "WIN" ELSE "LOSS"

\* the stop placed on the side of the target
stopLossPriceAbove(entryPrice, stopDistance) == RAdd(entryPrice, stopDistance)

\* entryPrice - stopDistance
stopLossPriceOf(entryPrice, stopDistance) == RSub(entryPrice, stopDistance)

\* the Trade pushed for bar idx (0-based) of symbolToTrade
tradeOf(strategy, symbolToTrade, idx, currentBar, potentialRR) ==
    LET entryPrice == RMul(currentBar.o, RAdd(RInt(1), Percent(slippage)))
        stopDistance == RMul(entryPrice, Percent(strategy.stopLossPercentage))
        stopLossPrice == stopLossPriceOf(entryPrice, stopDistance)
        takeProfitPrice == RAdd(entryPrice, RMul(stopDistance, potentialRR))
        exit == resolveExit(currentBar, stopLossPrice, takeProfitPrice)
        exitPrice == RMul(exit.exitPrice, RSub(RInt(1), Percent(slippage)))
        assetClass == AssetClassOf(symbolToTrade)
        tradeValue == RMul(initialCapital, <<1, 50>>)
        positionSize == RDiv(tradeValue, entryPrice)
        grossPnl == RMul(RSub(exitPrice, entryPrice), positionSize)
        netPnl == RSub(grossPnl, commission)
    IN  [id |-> <<"trade", idx, symbolToTrade>>,
         symbol |-> symbolToTrade,
         pnl |-> netPnl,
         pnlPercentage |-> RMul(RDiv(netPnl, tradeValue), RInt(100)),
         positionSize |-> positionSize,
         value |-> tradeValue,
         leverage |-> calculateDynamicLeverage(potentialRR, ASSET_LEVERAGE_MAP[assetClass]),
         holdingTime |-> getSimulationParams(timeframe).holdingTime,
         rr |-> potentialRR,
         type |-> tradeTypeOf(netPnl),
         assetClass |-> assetClass,
         entryPrice |-> entryPrice,
         exitPrice |-> exitPrice,
         stopLossPrice |-> stopLossPrice,
         takeProfitPrice |-> takeProfitPrice,
         commission |-> commission,
         slippage |-> RAdd(RMul(entryPrice, Percent(slippage)),
                           RMul(exitPrice, Percent(slippage))),
         exitReason |-> exit.exitReason]

(***************************************************************************)
(* Equity curve and result assembly                                        *)
(***************************************************************************)
\* x.toFixed(2), as the number it prints: two decimals, a tie away from zero
ToFixed2(x) ==
    LET a == IF RLt(x, Zero) THEN RNeg(x) ELSE x
        n == RFloor(RAdd(RMul(a, RInt(100)), <<1, 2>>))
    IN  IF RLt(x, Zero) THEN Rat(-n, 100) ELSE Rat(n, 100)

\* spyData?.[0]?.c and dateToSpyPriceMap.get(date): <<>> for undefined
spyDataOf(data) == IF "SPY" \in DOMAIN data THEN data["SPY"] ELSE <<>>

\* the close of the last benchmark bar taken as the base
spyLastPriceOf(spyData) == IF spyData = <<>> THEN <<>> ELSE <<spyData[Len(spyData)].c>>

\* spyData?.[0]?.c
spyInitialPriceOf(spyData) == IF spyData = <<>> THEN <<>> ELSE <<spyData[1].c>>

spyPriceOn(spyData, date) ==
    LET ks == {k \in DOMAIN spyData : DateOf(spyData[k].t) = date}
    IN  IF ks = {} THEN <<>>
        ELSE <<spyData[CHOOSE k \in ks : \A j \in ks : j <= k].c>>

Truthy(opt) == opt # <<>> /\ opt[1] # Zero

\* the date order the curve is walked in, without the sort
unsortedDatesOf(daily) == DailyKeys(daily)

\* Object.keys(dailyPnl).sort()
sortedDatesOf(daily) == SortStrings(DailyKeys(daily))

\* the drawdown taken against the current value instead of the peak
drawdownOverValue(peakValue, portfolioValue) ==
    RDiv(RSub(peakValue, portfolioValue), portfolioValue)

\* (peakValue - portfolioValue) / peakValue
drawdownOf(peakValue, portfolioValue) ==
    RDiv(RSub(peakValue, portfolioValue), peakValue)

\* the peak replaced by the current value at every date
peakIsCurrentValue(peakValue0, portfolioValue) == portfolioValue

\* if (portfolioValue > peakValue) peakValue = portfolioValue
peakOf(peakValue0, portfolioValue) ==
    IF RLt(peakValue0, portfolioValue) THEN portfolioValue ELSE peakValue0

\* the loop over sortedDates from its k-th date on
RECURSIVE curveFrom(_, _, _, _, _, _, _)
curveFrom(dates, k, portfolioValue0, peakValue0, spyValue0, daily, spyData) ==
    IF k > Len(dates) THEN <<>>
    ELSE
        LET date == dates[k]
            portfolioValue == RAdd(portfolioValue0, DailyGet(daily, date))
            peakValue == peakOf(peakValue0, portfolioValue)
            drawdown == drawdownOf(peakValue, portfolioValue)
            currentSpyPrice == spyPriceOn(spyData, date)
            spyInitialPrice == spyInitialPriceOf(spyData)
            spyValue == IF Truthy(currentSpyPrice) /\ Truthy(spyInitialPrice)
                        THEN RMul(initialCapital,
                                  RDiv(currentSpyPrice[1], spyInitialPrice[1]))
                        ELSE spyValue0
        IN  <<[date |-> date, strategy |-> portfolioValue, sp500 |-> spyValue,
               drawdown |-> drawdown]>>
            \o curveFrom(dates, k + 1, portfolioValue, peakValue, spyValue, daily, spyData)

\* the curve with a leading point for the starting capital
performanceDataSeeded(daily, data) ==
    <<[date |-> DateStr(0), strategy |-> initialCapital, sp500 |-> initialCapital,
       drawdown |-> Zero]>>
        \o curveFrom(sortedDatesOf(daily), 1, initialCapital, initialCapital,
                     initialCapital, daily, spyDataOf(data))

performanceDataOf(daily, data) ==
    curveFrom(sortedDatesOf(daily), 1, initialCapital, initialCapital, initialCapital,
              daily, spyDataOf(data))

\* the mean without the length test: 0 / 0 for no value, kept as <<0, 0>>
MeanOfUnguarded(values) ==
    IF values = <<>> THEN <<0, 0>> ELSE RDiv(SumR(values), RInt(Len(values)))

\* length > 0 ? sum / length : 0
MeanOf(values) ==
    IF values = <<>> THEN Zero ELSE RDiv(SumR(values), RInt(Len(values)))

\* the BacktestResults object passed to setResults
resultsOf(performanceData, trades, ratios) ==
    LET portfolioValue == performanceData[Len(performanceData)].strategy
        totalReturn == RSub(portfolioValue, initialCapital)
        totalReturnPercent == RMul(RDiv(totalReturn, initialCapital), RInt(100))
        winningTrades == SelectSeq(trades, LAMBDA t : t.type = "WIN")
        losingTrades == SelectSeq(trades, LAMBDA t : t.type = "LOSS")
        changeType == IF RLt(Zero, totalReturn) THEN "positive" ELSE "negative"
    IN  [metrics |->
            [totalPnl |-> [value |-> ToFixed2(totalReturn), changeType |-> changeType],
             totalReturn |-> [value |-> ToFixed2(totalReturnPercent), changeType |-> changeType],
             maxDrawdown |-> [value |-> ToFixed2(RMul(maxDrawdownOf(performanceData), RInt(100)))],
             sortino |-> [value |-> ratios.sortino],
             calmar |-> [value |-> ratios.calmar]],
         performanceData |-> performanceData,
         allTrades |-> trades,
         summary |->
            [trades |-> Len(trades),
             wins |-> Len(winningTrades),
             losses |-> Len(trades) - Len(winningTrades),
             winRate |-> IF Len(trades) > 0
                         THEN ToFixed2(RMul(RDiv(RInt(Len(winningTrades)), RInt(Len(trades))),
                                            RInt(100)))
                         ELSE Zero,
             avgWin |-> MeanOf([k \in DOMAIN winningTrades |-> winningTrades[k].pnl]),
             avgLoss |-> MeanOf([k \in DOMAIN losingTrades |-> losingTrades[k].pnl]),
             avgRR |-> MeanOf([k \in DOMAIN trades |-> trades[k].rr]),
             avgPositionSize |-> MeanOf([k \in DOMAIN trades |-> trades[k].value]),
             avgLeverage |-> MeanOf([k \in DOMAIN trades |-> RInt(trades[k].leverage)])],
         config |-> [initialCapital |-> initialCapital, commission |-> commission,
                     slippage |-> slippage]]

(***************************************************************************)
(* The Backtesting component.  The form fields and the strategy selection  *)
(* are whatever the user left in them before pressing Run.                 *)
(***************************************************************************)
Null == <<>>

\* the component as mounted with nothing running; the form fields hold their
\* construction-time values
ComponentAtRest ==
    /\ selectedStrategyIds = {}
    /\ initialCapital = <<100000, 1>>
    /\ commission = <<1, 2>>
    /\ slippage = <<1, 20>>
    /\ useWeeklyBias = TRUE
    /\ timeframe = "1Day"
    /\ isLoading = FALSE
    /\ results = Null
    /\ error = "null"
    /\ pc = "idle"
    /\ selectedStrategies = <<>>
    /\ dataResult = Null
    /\ sIdx = 1
    /\ i = 5
    /\ allTrades = <<>>
    /\ dailyPnl = <<>>

StrategyIds == {savedStrategies[k].id : k \in DOMAIN savedStrategies}
CapitalChoices == {<<1000, 1>>}
CommissionChoices == {<<0, 1>>, <<600, 1>>}
SlippageChoices == {<<0, 1>>, <<5, 1>>}
TimeframeChoices == {"1Hour"}

ErrFetch == "Could not fetch real data for any selected assets."
ErrNoCurve == "Could not generate performance data."

NoCall == [fn |-> "none"]

Init ==
    /\ selectedStrategyIds = {}
    /\ initialCapital \in CapitalChoices
    /\ commission \in CommissionChoices
    /\ slippage \in SlippageChoices
    /\ useWeeklyBias \in BOOLEAN
    /\ timeframe \in TimeframeChoices
    /\ isLoading = FALSE
    /\ results = Null
    /\ error = "null"
    /\ pc = "idle"
    /\ selectedStrategies = <<>>
    /\ dataResult = Null
    /\ sIdx = 1
    /\ i = 5
    /\ allTrades = <<>>
    /\ dailyPnl = <<>>
    /\ fnArgs = NoCall
    /\ fnRet = <<>>

form == <<selectedStrategyIds, initialCapital, commission, slippage, useWeeklyBias,
          timeframe, fnArgs, fnRet>>

\* a strategy's checkbox is toggled while no run is under way
handleStrategySelection ==
    /\ pc = "idle"
    /\ \E strategyId \in StrategyIds :
           /\ selectedStrategyIds' =
                  IF strategyId \in selectedStrategyIds
                  THEN selectedStrategyIds \ {strategyId}
                  ELSE selectedStrategyIds \cup {strategyId}
           /\ Cardinality(selectedStrategyIds') <= MaxSelected
    /\ UNCHANGED <<initialCapital, commission, slippage, useWeeklyBias, timeframe,
                   fnArgs, fnRet, isLoading, results, error, pc, selectedStrategies,
                   dataResult, sIdx, i, allTrades, dailyPnl>>

\* the resets of a run placed ahead of the selection test
RunNothingSelectedResets ==
    /\ pc = "idle"
    /\ selectedStrategyIds = {}
    /\ pc' = "alert"
    /\ results' = Null
    /\ error' = "null"
    /\ UNCHANGED <<form, isLoading, selectedStrategies, dataResult,
                   sIdx, i, allTrades, dailyPnl>>

\* handleRunBacktest with nothing selected: the alert, then return
RunNothingSelected ==
    /\ pc = "idle"
    /\ selectedStrategyIds = {}
    /\ pc' = "alert"
    /\ UNCHANGED <<form, isLoading, results, error, selectedStrategies, dataResult,
                   sIdx, i, allTrades, dailyPnl>>

AlertDismissed ==
    /\ pc = "alert"
    /\ pc' = "idle"
    /\ UNCHANGED <<form, isLoading, results, error, selectedStrategies, dataResult,
                   sIdx, i, allTrades, dailyPnl>>

\* handleRunBacktest up to the await of fetchStockHistoricalData
RunStart ==
    /\ pc = "idle"
    /\ selectedStrategyIds # {}
    /\ isLoading' = TRUE
    /\ results' = Null
    /\ error' = "null"
    /\ selectedStrategies' = SelectedOf(selectedStrategyIds)
    /\ dataResult' = Null
    /\ sIdx' = 1
    /\ i' = 5
    /\ allTrades' = <<>>
    /\ dailyPnl' = <<>>
    /\ pc' = "awaitData"
    /\ UNCHANGED form

\* fetchStockHistoricalData resolves; getStrategyOptimizations is called
DataFetched ==
    /\ pc = "awaitData"
    /\ \E r \in FetchResults(symbolsToFetchOf(selectedStrategies)) :
           dataResult' = r
    /\ pc' = "awaitAdvice"
    /\ UNCHANGED <<form, isLoading, results, error, selectedStrategies,
                   sIdx, i, allTrades, dailyPnl>>

DataUsable == dataResult.success /\ DOMAIN dataResult.data # {}

\* getStrategyOptimizations resolves and the fetched data is unusable
AdviceFetchedNoData ==
    /\ pc = "awaitAdvice"
    /\ ~DataUsable
    /\ error' = ErrFetch
    /\ isLoading' = FALSE
    /\ pc' = "idle"
    /\ UNCHANGED <<form, results, selectedStrategies, dataResult,
                   sIdx, i, allTrades, dailyPnl>>

\* a strategy without an available symbol ends the loop over the strategies
NextActiveBreaks(strategies, data, k) ==
    IF k > Len(strategies) THEN k
    ELSE IF availableSymbolsOf(strategies[k], data) # <<>> THEN k
    ELSE Len(strategies) + 1

\* the first strategy from the k-th on that has an available symbol (the
\* others hit "continue"), or one past the last strategy
RECURSIVE NextActive(_, _, _)
NextActive(strategies, data, k) ==
    IF k > Len(strategies) THEN k
    ELSE IF availableSymbolsOf(strategies[k], data) # <<>> THEN k
    ELSE NextActive(strategies, data, k + 1)

\* getStrategyOptimizations resolves and the simulation starts
AdviceFetched ==
    /\ pc = "awaitAdvice"
    /\ DataUsable
    /\ allTrades' = <<>>
    /\ dailyPnl' = <<>>
    /\ sIdx' = NextActive(selectedStrategies, dataResult.data, 1)
    /\ i' = 5
    /\ pc' = "simulate"
    /\ UNCHANGED <<form, isLoading, results, error, selectedStrategies, dataResult>>

AtBar == pc = "simulate" /\ sIdx <= Len(selectedStrategies)
strategy == selectedStrategies[sIdx]
availableSymbols == availableSymbolsOf(strategy, dataResult.data)
timelineBars == dataResult.data[availableSymbols[1]]
\* the date of the bar before the current one
dateOfPreviousBar == DateOf(timelineBars[i].t)

\* timelineBars[i].t.split('T')[0]
date == DateOf(timelineBars[i + 1].t)

\* i++ of the bar loop; past the last bar, on to the next strategy
LoopAdvances ==
    IF i + 1 < Len(timelineBars)
    THEN i' = i + 1 /\ sIdx' = sIdx
    ELSE i' = 5 /\ sIdx' = NextActive(selectedStrategies, dataResult.data, sIdx + 1)

\* one bar: Math.random() >= tradeProbability
BarNoSignal ==
    /\ AtBar
    /\ dailyPnl' = DailyTouch(dailyPnl, date)
    /\ LoopAdvances
    /\ UNCHANGED <<form, isLoading, results, error, pc, selectedStrategies, dataResult,
                   allTrades>>

\* one bar: the symbol drawn has no bar at this index
BarBeyondSeries ==
    /\ AtBar
    /\ \E symbolToTrade \in Range(availableSymbols) :
           i >= Len(dataResult.data[symbolToTrade])
    /\ dailyPnl' = DailyTouch(dailyPnl, date)
    /\ LoopAdvances
    /\ UNCHANGED <<form, isLoading, results, error, pc, selectedStrategies, dataResult,
                   allTrades>>

\* one bar: the trend-bias filter rejects the bar of the symbol drawn
BarAgainstTrend ==
    /\ AtBar
    /\ useWeeklyBias
    /\ \E symbolToTrade \in Range(availableSymbols) :
           LET symbolBars == dataResult.data[symbolToTrade]
           IN  /\ i < Len(symbolBars)
               /\ ~isUptrendOf(symbolBars[i + 1], weeklySmaOf(symbolBars, i + 1))
    /\ dailyPnl' = DailyTouch(dailyPnl, date)
    /\ LoopAdvances
    /\ UNCHANGED <<form, isLoading, results, error, pc, selectedStrategies, dataResult,
                   allTrades>>

\* one bar: a trade is entered and resolved on the bar of the symbol drawn
BarTrade ==
    /\ AtBar
    /\ Len(allTrades) < MaxTrades
    /\ \E symbolToTrade \in Range(availableSymbols), potentialRR \in RRChoices :
           LET symbolBars == dataResult.data[symbolToTrade]
               currentBar == symbolBars[i + 1]
               isUptrend == isUptrendOf(currentBar, weeklySmaOf(symbolBars, i + 1))
               trade == tradeOf(strategy, symbolToTrade, i, currentBar, potentialRR)
               touched == DailyTouch(dailyPnl, date)
           IN  /\ i < Len(symbolBars)
               /\ ~(useWeeklyBias /\ ~isUptrend)
               /\ dailyPnl' = DailySet(touched, date, RAdd(DailyGet(touched, date), trade.pnl))
               /\ allTrades' = Append(allTrades, trade)
    /\ LoopAdvances
    /\ UNCHANGED <<form, isLoading, results, error, pc, selectedStrategies, dataResult>>

AfterLoop == pc = "simulate" /\ sIdx > Len(selectedStrategies)

\* the empty-curve return without setIsLoading(false)
CurveEmptyStillLoading ==
    /\ AfterLoop
    /\ performanceDataOf(dailyPnl, dataResult.data) = <<>>
    /\ error' = ErrNoCurve
    /\ pc' = "idle"
    /\ UNCHANGED <<form, isLoading, results, selectedStrategies, dataResult, sIdx, i,
                   allTrades, dailyPnl>>

\* the curve is empty: setError, no result
CurveEmpty ==
    /\ AfterLoop
    /\ performanceDataOf(dailyPnl, dataResult.data) = <<>>
    /\ error' = ErrNoCurve
    /\ isLoading' = FALSE
    /\ pc' = "idle"
    /\ UNCHANGED <<form, results, selectedStrategies, dataResult, sIdx, i,
                   allTrades, dailyPnl>>

\* the curve, the metrics and setResults
ResultAssembled ==
    /\ AfterLoop
    /\ LET performanceData == performanceDataOf(dailyPnl, dataResult.data)
       IN  /\ performanceData # <<>>
           /\ \E powOverflows \in BOOLEAN :
                  results' = <<resultsOf(performanceData, allTrades,
                                 calculateAdvancedRatios(performanceData, <<1, 50>>,
                                     getSimulationParams(timeframe).barsPerYear,
                                     powOverflows))>>
    /\ isLoading' = FALSE
    /\ pc' = "idle"
    /\ UNCHANGED <<form, error, selectedStrategies, dataResult, sIdx, i,
                   allTrades, dailyPnl>>

Next ==
    \/ handleStrategySelection
    \/ RunNothingSelected
    \/ AlertDismissed
    \/ RunStart
    \/ DataFetched
    \/ AdviceFetchedNoData
    \/ AdviceFetched
    \/ BarNoSignal
    \/ BarBeyondSeries
    \/ BarAgainstTrend
    \/ BarTrade
    \/ CurveEmpty
    \/ ResultAssembled

Spec == Init /\ [][Next]_vars

\* the steps of a run once started
RunSteps ==
    \/ DataFetched
    \/ AdviceFetchedNoData
    \/ AdviceFetched
    \/ BarNoSignal
    \/ BarBeyondSeries
    \/ BarAgainstTrend
    \/ BarTrade
    \/ CurveEmpty
    \/ ResultAssembled

\* a step of a started run is possible exactly while handleRunBacktest has not
\* returned: at either await the fetch result arrives, at a bar BarNoSignal is
\* possible, after the loop one of CurveEmpty and ResultAssembled is
RunStepEnabled == pc \in {"awaitData", "awaitAdvice", "simulate"}

\* weak fairness of RunSteps, with its enabling condition written out: both
\* fetches return and the simulation is straight-line code, so a started run
\* keeps going
RunFairness == []<>(~RunStepEnabled) \/ []<><<RunSteps>>_vars

SpecLive == Spec /\ RunFairness

(***************************************************************************)
(* Direct calls of the leverage sizer                                      *)
(***************************************************************************)
RRInputs ==
    {<<-1, 1>>, <<0, 1>>, <<1, 1>>, <<2, 1>>, <<5, 2>>, <<3, 1>>, <<15, 4>>,
     <<9, 2>>, <<5, 1>>, <<6, 1>>, <<10, 1>>}

MaxLeverageInputs == {-1, 0, 1, 2, 3, 5, 10, 20, 30}

InitLeverage ==
    /\ ComponentAtRest
    /\ fnArgs \in [fn : {"calculateDynamicLeverage"}, rr : RRInputs,
                    maxLeverage : MaxLeverageInputs]
    /\ fnRet = <<>>

CallLeverage ==
    /\ fnArgs.fn = "calculateDynamicLeverage"
    /\ fnRet = <<>>
    /\ fnRet' = <<calculateDynamicLeverage(fnArgs.rr, fnArgs.maxLeverage)>>
    /\ UNCHANGED <<compVars, fnArgs>>

NextLeverage == CallLeverage

SpecLeverage == InitLeverage /\ [][NextLeverage]_vars

LeverageReturned == fnArgs.fn = "calculateDynamicLeverage" /\ fnRet # <<>>

\* C1: for every rr (also below 2.5 and above 5.0) and every integer
\* maxLeverage the sizer returns an integer L with 2 <= L <= maxLeverage.
C1_LeverageWithinBounds ==
    LeverageReturned =>
        /\ fnRet[1] \in Int
        /\ 2 <= fnRet[1]
        /\ fnRet[1] <= fnArgs.maxLeverage

\* C2: for rr in [2.5, 5.0] and maxLeverage > 2 the sizer returns
\* round(2 + ((rr - 2.5) / 2.5) * (maxLeverage - 2)); leverage(2.5, 20) = 2,
\* leverage(5.0, 20) = 20, leverage(3.75, 10) = 6; for maxLeverage <= 2 it
\* returns 2.
C2_LeverageInterpolates ==
    LeverageReturned =>
        LET rr == fnArgs.rr
            m == fnArgs.maxLeverage
            L == fnRet[1]
        IN  /\ m <= 2 => L = 2
            /\ (m > 2 /\ RLe(<<5, 2>>, rr) /\ RLe(rr, <<5, 1>>)) =>
                   L = MathRound(RAdd(RInt(2),
                           RMul(RDiv(RSub(rr, <<5, 2>>), <<5, 2>>), RInt(m - 2))))
            /\ (rr = <<5, 2>> /\ m = 20) => L = 2
            /\ (rr = <<5, 1>> /\ m = 20) => L = 20
            /\ (rr = <<15, 4>> /\ m = 10) => L = 6

\* the sizer has returned for the midpoint example rr = 3.75, maxLeverage = 10
C2_Witness ==
    /\ LeverageReturned
    /\ fnArgs.rr = <<15, 4>>
    /\ fnArgs.maxLeverage = 10
    /\ fnRet[1] = 6

\* C3: rr is clamped on both sides: below 2.5 the result is that of rr = 2.5,
\* above 5.0 that of rr = 5.0.
C3_LeverageClampsBothSides ==
    LeverageReturned =>
        LET rr == fnArgs.rr
            m == fnArgs.maxLeverage
            L == fnRet[1]
        IN  /\ RLt(rr, <<5, 2>>) => L = calculateDynamicLeverage(<<5, 2>>, m)
            /\ RLt(<<5, 1>>, rr) => L = calculateDynamicLeverage(<<5, 1>>, m)


(***************************************************************************)
(* Properties of the trades and of the equity curve of a run               *)
(***************************************************************************)
\* the bar a trade was entered on: symbolBars[i] of trade-${i}-${symbol}
EntryBarOf(t) == dataResult.data[t.symbol][t.id[2] + 1]

\* x * (1 - slippage / 100)
AfterExitSlippage(x) == RMul(x, RSub(RInt(1), RDiv(slippage, RInt(100))))

\* C4: every emitted trade is resolved on its entry bar, stop-loss first:
\* low <= stopLossPrice gives StopLoss at stopLossPrice * (1 - slippage%), also
\* when high >= takeProfitPrice; else high >= takeProfitPrice gives TakeProfit
\* at takeProfitPrice * (1 - slippage%); else EndOfPeriod at
\* close * (1 - slippage%).
C4_ExitStopFirst ==
    \A k \in DOMAIN allTrades :
        LET t == allTrades[k]
            bar == EntryBarOf(t)
        IN  IF RLe(bar.l, t.stopLossPrice)
            THEN /\ t.exitReason = "SL"
                 /\ t.exitPrice = AfterExitSlippage(t.stopLossPrice)
            ELSE IF RLe(t.takeProfitPrice, bar.h)
            THEN /\ t.exitReason = "TP"
                 /\ t.exitPrice = AfterExitSlippage(t.takeProfitPrice)
            ELSE /\ t.exitReason = "EOD"
                 /\ t.exitPrice = AfterExitSlippage(bar.c)

\* a result holds a trade whose bar reached both the stop and the target and
\* that left at the stop, one that left at the target and one at the close
C4_Witness ==
    /\ results # Null
    /\ \E k \in DOMAIN allTrades :
           /\ RLe(EntryBarOf(allTrades[k]).l, allTrades[k].stopLossPrice)
           /\ RLe(allTrades[k].takeProfitPrice, EntryBarOf(allTrades[k]).h)
           /\ allTrades[k].exitReason = "SL"
    /\ \E k \in DOMAIN allTrades :
           allTrades[k].exitReason \in {"TP", "EOD"}

\* the trade was emitted on bar index 5 of a series of 6 flat bars at 100, the
\* only symbol the run has data for
FlatBarTrade(t) ==
    LET symbolBars == dataResult.data[t.symbol]
    IN  /\ DOMAIN dataResult.data \ {"SPY"} = {t.symbol}
        /\ Len(symbolBars) = 6
        /\ \A k \in 1..6 : /\ symbolBars[k].o = RInt(100)
                           /\ symbolBars[k].h = RInt(100)
                           /\ symbolBars[k].l = RInt(100)
                           /\ symbolBars[k].c = RInt(100)
        /\ t.id[2] = 5

\* C5: a trade emitted on bar index 5 of a single symbol with 6 flat bars at
\* 100 has exitReason EndOfPeriod and exitPrice 100 * (1 - slippage%), for
\* every slippage >= 0 and every stop-loss percent > 0.
C5_FlatBarEndOfPeriod ==
    \A k \in DOMAIN allTrades :
        FlatBarTrade(allTrades[k]) =>
            /\ allTrades[k].exitReason = "EOD"
            /\ allTrades[k].exitPrice = AfterExitSlippage(RInt(100))

\* 100 * (1 + slippage%) * (1 - p%) for a stop-loss percent p
FlatStopPrice(p) ==
    RMul(RMul(RInt(100), RAdd(RInt(1), RDiv(slippage, RInt(100)))),
         RSub(RInt(1), RDiv(p, RInt(100))))

\* C5, amended: on such a flat series the trade of a strategy with stop-loss
\* percent p leaves at EndOfPeriod with exitPrice 100 * (1 - slippage%) when
\* the stop price 100 * (1 + slippage%) * (1 - p%) is below 100, and at
\* StopLoss with exitPrice stop * (1 - slippage%) when it is 100 or more.
C5_FlatBarExit ==
    \A k \in DOMAIN allTrades :
        LET t == allTrades[k]
        IN  FlatBarTrade(t) =>
                \E n \in DOMAIN selectedStrategies :
                    LET stop == FlatStopPrice(selectedStrategies[n].stopLossPercentage)
                    IN  /\ t.stopLossPrice = stop
                        /\ IF RLt(stop, RInt(100))
                           THEN /\ t.exitReason = "EOD"
                                /\ t.exitPrice = AfterExitSlippage(RInt(100))
                           ELSE /\ t.exitReason = "SL"
                                /\ t.exitPrice = AfterExitSlippage(stop)

\* with a positive slippage, a run has emitted one flat-series trade that left
\* at the close and one that left at the stop
C5_Witness ==
    /\ RLt(Zero, slippage)
    /\ \E k \in DOMAIN allTrades :
           /\ FlatBarTrade(allTrades[k])
           /\ allTrades[k].exitReason = "EOD"
           /\ allTrades[k].exitPrice = <<95, 1>>
    /\ \E k \in DOMAIN allTrades :
           /\ FlatBarTrade(allTrades[k])
           /\ allTrades[k].exitReason = "SL"

\* the calendar date of a point, as a number
DateNum(d) == d[1] * 10 + d[2]

\* C6: in every result performanceData is strictly ascending by date, so no
\* two points share a date, whatever the strategies, symbols and bars per
\* date (several bars of one series may fall on one date).
C6_CurveStrictlyAscending ==
    results # Null =>
        LET pd == results[1].performanceData
        IN  \A k \in 1..(Len(pd) - 1) : DateNum(pd[k].date) < DateNum(pd[k + 1].date)

\* a result of two strategies whose dates were met out of order (the first
\* strategy's series has two bars on one date, later than the second's) and
\* whose curve has three points
C6_Witness ==
    /\ results # Null
    /\ Len(results[1].performanceData) = 3
    /\ Len(dailyPnl) = 3
    /\ DateNum(dailyPnl[2][1]) < DateNum(dailyPnl[1][1])
    /\ \E sym \in DOMAIN dataResult.data :
           \E j, k \in DOMAIN dataResult.data[sym] :
               /\ j < k
               /\ j > 5
               /\ DateOf(dataResult.data[sym][j].t) = DateOf(dataResult.data[sym][k].t)

\* C7: every point of every curve has 0 <= drawdown <= 1.
C7_DrawdownInUnitRange ==
    results # Null =>
        \A k \in DOMAIN results[1].performanceData :
            /\ RLe(Zero, results[1].performanceData[k].drawdown)
            /\ RLe(results[1].performanceData[k].drawdown, RInt(1))

\* C8: the first point of every curve has drawdown 0.
C8_FirstPointNoDrawdown ==
    results # Null => results[1].performanceData[1].drawdown = Zero

\* the net P&L of the trades booked on the curve's first date
FirstDatePnl == RSub(results[1].performanceData[1].strategy, initialCapital)

\* C8, amended: the first point has drawdown 0 when the P&L booked on the
\* first date is not negative, and -P&L / initialCapital when it is.
C8_FirstPointDrawdown ==
    results # Null =>
        LET first == results[1].performanceData[1]
        IN  /\ first.strategy = RAdd(initialCapital, DailyGet(dailyPnl, first.date))
            /\ IF RLe(Zero, FirstDatePnl)
               THEN first.drawdown = Zero
               ELSE first.drawdown = RDiv(RNeg(FirstDatePnl), initialCapital)

\* a result whose first date booked a loss, and so starts in drawdown
C8_Witness ==
    /\ results # Null
    /\ RLt(FirstDatePnl, Zero)
    /\ RLt(Zero, results[1].performanceData[1].drawdown)

\* the largest drawdown field of a curve
LargestDrawdown(pd) ==
    CHOOSE m \in {pd[k].drawdown : k \in DOMAIN pd} :
        \A k \in DOMAIN pd : RLe(pd[k].drawdown, m)

\* C9: the Max Drawdown metric of a result (a percentage with two decimals)
\* and the max drawdown the Calmar ratio divides by are both the maximum of
\* the drawdown field over the result's performanceData.
C9_MaxDrawdownIsMaximum ==
    results # Null =>
        LET pd == results[1].performanceData
        IN  /\ results[1].metrics.maxDrawdown.value =
                   ToFixed2(RMul(LargestDrawdown(pd), RInt(100)))
            /\ maxDrawdownOf(pd) = LargestDrawdown(pd)

\* a result whose largest drawdown is positive and is not that of the last point
C9_Witness ==
    /\ results # Null
    /\ LET pd == results[1].performanceData
       IN  /\ RLt(pd[Len(pd)].drawdown, LargestDrawdown(pd))
           /\ RLt(Zero, results[1].metrics.maxDrawdown.value)


(***************************************************************************)
(* Direct calls of the risk metrics calculator                             *)
(***************************************************************************)
MaxPoints == 3

StrategyValueInputs == {<<-50, 1>>, Zero, <<100, 1>>, <<150, 1>>}
DrawdownInputs == {Zero, <<1, 2>>}
\* the two values the component passes, and 365, which two periods do not divide
BarsPerYearInputs ==
    {getSimulationParams(tf).barsPerYear : tf \in {"1Day", "1Hour"}} \cup {365}

\* the points the calculator reads: strategy and drawdown
PointInputs == [strategy : StrategyValueInputs, drawdown : DrawdownInputs]

PerformanceInputs == UNION {[1..n -> PointInputs] : n \in 0..MaxPoints}

InitRatios ==
    /\ ComponentAtRest
    /\ fnArgs \in [fn : {"calculateAdvancedRatios"}, performanceData : PerformanceInputs,
                    barsPerYear : BarsPerYearInputs]
    /\ fnRet = <<>>

CallRatios ==
    /\ fnArgs.fn = "calculateAdvancedRatios"
    /\ fnRet = <<>>
    /\ \E powOverflows \in BOOLEAN :
           fnRet' = <<calculateAdvancedRatios(fnArgs.performanceData, <<1, 50>>,
                          fnArgs.barsPerYear, powOverflows)>>
    /\ UNCHANGED <<compVars, fnArgs>>

NextRatios == CallRatios

SpecRatios == InitRatios /\ [][NextRatios]_vars

RatiosReturned == fnArgs.fn = "calculateAdvancedRatios" /\ fnRet # <<>>

\* no period starts above 0 and ends lower: no per-period return is negative
NoNegativeReturn(pd) ==
    \A k \in 1..(Len(pd) - 1) :
        ~(RLt(Zero, pd[k].strategy) /\ RLt(pd[k + 1].strategy, pd[k].strategy))

\* C10: zero denominators yield 0: with no strictly negative per-period
\* return sortino is 0, with a maximum drawdown of 0 calmar is 0, and with
\* fewer than 2 points both are 0.
C10_ZeroDenominators ==
    RatiosReturned =>
        LET pd == fnArgs.performanceData
        IN  /\ Len(pd) < 2 => (fnRet[1].sortino = "0" /\ fnRet[1].calmar = "0")
            /\ NoNegativeReturn(pd) => fnRet[1].sortino = "0"
            /\ (pd # <<>> /\ LargestDrawdown(pd) = Zero) => fnRet[1].calmar = "0"

\* the calculator has returned for a curve that rises, never falls and has been
\* in drawdown: sortino is 0 while calmar is a quotient
C10_Witness ==
    /\ RatiosReturned
    /\ Len(fnArgs.performanceData) = 3
    /\ NoNegativeReturn(fnArgs.performanceData)
    /\ RLt(fnArgs.performanceData[1].strategy, fnArgs.performanceData[3].strategy)
    /\ fnRet[1].sortino = "0"
    /\ fnRet[1].calmar = "finite"


\* C11: for every performance sequence, also one that starts at 0 or ends
\* negative, the sortino and calmar returned are finite numbers: a NaN or
\* infinite intermediate value is replaced by 0.
C11_RatiosFinite ==
    RatiosReturned =>
        LET pd == fnArgs.performanceData
            n == Len(pd) - 1
        IN  /\ fnRet[1].sortino \in {"0", "finite"}
            /\ fnRet[1].calmar \in {"0", "finite"}
            \* last / first is NaN or infinite
            /\ (Len(pd) >= 2 /\ pd[1].strategy = Zero) =>
                   (fnRet[1].sortino = "0" /\ fnRet[1].calmar = "0")
            \* a negative base under a fractional exponent is NaN
            /\ (/\ Len(pd) >= 2
                /\ pd[1].strategy # Zero
                /\ RLt(RDiv(pd[Len(pd)].strategy, pd[1].strategy), Zero)
                /\ fnArgs.barsPerYear % n # 0) =>
                   (fnRet[1].sortino = "0" /\ fnRet[1].calmar = "0")

\* the calculator has returned 0 twice for a curve that starts at 0, has a
\* falling period and has been in drawdown: both guards pass and only the
\* isFinite test gives the 0
C11_Witness ==
    /\ RatiosReturned
    /\ Len(fnArgs.performanceData) >= 2
    /\ fnArgs.performanceData[1].strategy = Zero
    /\ ~NoNegativeReturn(fnArgs.performanceData)
    /\ RLt(Zero, LargestDrawdown(fnArgs.performanceData))
    /\ fnRet[1].sortino = "0"
    /\ fnRet[1].calmar = "0"


\* C12: with no trade the summary's avgWin, avgLoss, avgRR, avgPositionSize,
\* avgLeverage and win rate are 0; avgWin is 0 when no trade won and avgLoss
\* is 0 when no trade lost.
C12_EmptySummaryAverages ==
    results # Null =>
        LET trades == results[1].allTrades
            summary == results[1].summary
        IN  /\ trades = <<>> =>
                   /\ summary.trades = 0
                   /\ summary.avgWin = Zero
                   /\ summary.avgLoss = Zero
                   /\ summary.avgRR = Zero
                   /\ summary.avgPositionSize = Zero
                   /\ summary.avgLeverage = Zero
                   /\ summary.winRate = Zero
            /\ (\A k \in DOMAIN trades : trades[k].type # "WIN") => summary.avgWin = Zero
            /\ (\A k \in DOMAIN trades : trades[k].type # "LOSS") => summary.avgLoss = Zero

\* a result without any trade
C12_Witness ==
    /\ results # Null
    /\ results[1].allTrades = <<>>
    /\ results[1].summary.avgLeverage = Zero


\* the strategies of the run in progress (or last ended) name no symbol at all
NoTradableSymbol ==
    /\ selectedStrategies # <<>>
    /\ \A k \in DOMAIN selectedStrategies : strategySymbolsOf(selectedStrategies[k]) = <<>>

\* the run has ended: handleRunBacktest has returned
RunEnded == pc = "idle" /\ selectedStrategies # <<>>

\* C13: when the selected strategies resolve to no tradable symbol the run
\* ends in an error and never produces a result, whatever the provider
\* returns for the benchmark symbol.
C13_NoSymbolsIsError ==
    NoTradableSymbol =>
        /\ results = Null
        /\ RunEnded => error # "null"

\* such a run has ended in an error although the provider delivered the
\* benchmark series
C13_Witness ==
    /\ NoTradableSymbol
    /\ RunEnded
    /\ dataResult.success
    /\ "SPY" \in DOMAIN dataResult.data
    /\ dataResult.data["SPY"] # <<>>
    /\ error = ErrNoCurve
    /\ results = Null


\* the provider delivered a series of more than five bars for a symbol of a
\* selected strategy
TradableDataExisted ==
    /\ dataResult # Null
    /\ dataResult.success
    /\ \E k \in DOMAIN selectedStrategies :
           availableSymbolsOf(selectedStrategies[k], dataResult.data) # <<>>

\* C14: a run that had price data for a tradable symbol but emitted no trade
\* reports an error and produces no result and no performance curve.
C14_NoTradesIsError ==
    (RunEnded /\ TradableDataExisted /\ allTrades = <<>>) =>
        /\ results = Null
        /\ error # "null"


\* handleRunBacktest has been entered with a selection and has not returned
RunInProgress == pc \in {"awaitData", "awaitAdvice", "simulate"}

\* C15: a run started with a selection eventually finishes (both fetches
\* returning) with the loading flag false and exactly one of result and error
\* set; while it is in progress no result of an earlier run is exposed.
C15_RunFinishesOneOutcome ==
    /\ [](RunInProgress => (results = Null /\ isLoading))
    /\ [](RunEnded => (~isLoading /\ ((results # Null) # (error # "null"))))
    /\ (RunInProgress ~> RunEnded)

\* a run has ended with a result and no error
C15_Witness ==
    /\ RunEnded
    /\ ~isLoading
    /\ results # Null
    /\ error = "null"


\* C16: in the trade list of every result the trades of one symbol appear in
\* non-decreasing bar-index order, also when several strategies trade the
\* same symbol.
C16_PerSymbolChronological ==
    results # Null =>
        LET trades == results[1].allTrades
        IN  \A j, k \in DOMAIN trades :
                (j < k /\ trades[j].symbol = trades[k].symbol) =>
                    trades[j].id[2] <= trades[k].id[2]


\* x / 100
Hundredth(x) == RDiv(x, RInt(100))

\* C17: a trade emitted on bar b by a strategy with stop-loss percent p and
\* target ratio rr has entryPrice = b.open * (1 + slippage%),
\* stopLossPrice = entryPrice * (1 - p / 100),
\* takeProfitPrice = entryPrice + (entryPrice - stopLossPrice) * rr,
\* and 2.5 <= rr < 5.0.
C17_EntryStopTarget ==
    [][Len(allTrades') > Len(allTrades) =>
          LET t == allTrades'[Len(allTrades')]
              b == dataResult.data[t.symbol][i + 1]
              p == selectedStrategies[sIdx].stopLossPercentage
          IN  /\ Len(allTrades') = Len(allTrades) + 1
              /\ t.id[2] = i
              /\ t.entryPrice = RMul(b.o, RAdd(RInt(1), Hundredth(slippage)))
              /\ t.stopLossPrice = RMul(t.entryPrice, RSub(RInt(1), Hundredth(p)))
              /\ t.takeProfitPrice =
                     RAdd(t.entryPrice, RMul(RSub(t.entryPrice, t.stopLossPrice), t.rr))
              /\ RLe(<<5, 2>>, t.rr)
              /\ RLt(t.rr, <<5, 1>>)]_vars

\* with a positive slippage, a trade on a bar opening at 100 by the strategy
\* with a 4% stop and target ratio 4.75: entry 105, stop 100.8, target 124.95
C17_Witness ==
    /\ slippage = <<5, 1>>
    /\ \E k \in DOMAIN allTrades :
           /\ allTrades[k].rr = <<19, 4>>
           /\ allTrades[k].entryPrice = <<105, 1>>
           /\ allTrades[k].stopLossPrice = <<504, 5>>
           /\ allTrades[k].takeProfitPrice = <<2499, 20>>


\* C18: every emitted trade has value = 2% of the initial capital,
\* positionSize = value / entryPrice and
\* pnl = (exitPrice - entryPrice) * positionSize - commission, and is tagged
\* Win exactly when pnl > 0 (pnl = 0 is a Loss).
C18_PnlAndOutcome ==
    \A k \in DOMAIN allTrades :
        LET t == allTrades[k]
        IN  /\ t.value = RDiv(RMul(initialCapital, RInt(2)), RInt(100))
            /\ t.positionSize = RDiv(t.value, t.entryPrice)
            /\ t.pnl = RSub(RMul(RSub(t.exitPrice, t.entryPrice), t.positionSize),
                            commission)
            /\ t.commission = commission
            /\ t.type \in {"WIN", "LOSS"}
            /\ t.type = "WIN" <=> RLt(Zero, t.pnl)

\* a result holding a break-even trade, tagged Loss, and a winning trade
C18_Witness ==
    /\ results # Null
    /\ \E k \in DOMAIN allTrades : allTrades[k].pnl = Zero /\ allTrades[k].type = "LOSS"
    /\ \E k \in DOMAIN allTrades :
           RLt(Zero, allTrades[k].pnl) /\ allTrades[k].type = "WIN"


\* the sum of the net P&L of the trades emitted so far
TradesPnl == SumR([k \in DOMAIN allTrades |-> allTrades[k].pnl])

\* C19: the daily aggregation conserves P&L: the aggregated daily P&L summed
\* over all dates is the net P&L summed over all trades, whatever their order
\* and however many strategies and symbols took part; so the last point of
\* the curve is the initial capital plus the P&L of all trades.
C19_PnlConserved ==
    /\ SumR([k \in DOMAIN dailyPnl |-> dailyPnl[k][2]]) = TradesPnl
    /\ results # Null =>
           LET pd == results[1].performanceData
           IN  pd[Len(pd)].strategy = RAdd(initialCapital, TradesPnl)

\* a result of two strategies with a trade each, on different symbols and dates
\* and with different P&L, whose curve has more dates than trades
C19_Witness ==
    /\ results # Null
    /\ Len(allTrades) = 2
    /\ allTrades[1].symbol # allTrades[2].symbol
    /\ allTrades[1].pnl # allTrades[2].pnl
    /\ TradesPnl # Zero
    /\ Len(selectedStrategies) = 2
    /\ Len(results[1].performanceData) > 2


\* the net P&L of the trades whose own bar carries the date
PnlOfTradesOn(d) ==
    SumR(LET onDate == SelectSeq(allTrades, LAMBDA t : DateOf(EntryBarOf(t).t) = d)
         IN  [k \in DOMAIN onDate |-> onDate[k].pnl])

\* C20: each trade's net P&L is accumulated under the date of the traded
\* symbol's own bar, also when the series of different symbols carry different
\* dates at the same index.
C20_PnlKeyedByTradedBar ==
    /\ \A k \in DOMAIN allTrades : DailyHas(dailyPnl, DateOf(EntryBarOf(allTrades[k]).t))
    /\ \A k \in DOMAIN dailyPnl : dailyPnl[k][2] = PnlOfTradesOn(dailyPnl[k][1])


\* the aggregated P&L of all dates up to and including d
PnlUpTo(d) ==
    SumR(LET upTo == SelectSeq(dailyPnl, LAMBDA e : DateNum(e[1]) <= DateNum(d))
         IN  [k \in DOMAIN upTo |-> upTo[k][2]])

\* max(initial capital, every portfolio value of the first k points)
PeakAt(pd, k) ==
    CHOOSE m \in {initialCapital} \cup {pd[j].strategy : j \in 1..k} :
        /\ RLe(initialCapital, m)
        /\ \A j \in 1..k : RLe(pd[j].strategy, m)

\* C21: at every point of the curve, in ascending date order, the portfolio
\* value is the initial capital plus the aggregated P&L of all dates up to
\* that date; the peak, max(initial capital, every value so far), never
\* decreases, is at least the value and is positive; and
\* drawdown = (peak - value) / peak.
C21_CurveInvariants ==
    results # Null =>
        LET pd == results[1].performanceData
        IN  \A k \in DOMAIN pd :
                /\ pd[k].strategy = RAdd(initialCapital, PnlUpTo(pd[k].date))
                /\ RLt(Zero, PeakAt(pd, k))
                /\ RLe(pd[k].strategy, PeakAt(pd, k))
                /\ k > 1 => RLe(PeakAt(pd, k - 1), PeakAt(pd, k))
                /\ pd[k].drawdown =
                       RDiv(RSub(PeakAt(pd, k), pd[k].strategy), PeakAt(pd, k))

\* a curve that first rises above the initial capital and then falls below its
\* peak
C21_Witness ==
    /\ results # Null
    /\ LET pd == results[1].performanceData
       IN  \E k \in DOMAIN pd :
               /\ k > 1
               /\ RLt(initialCapital, PeakAt(pd, k))
               /\ RLt(pd[k].strategy, PeakAt(pd, k))
               /\ RLt(Zero, pd[k].drawdown)


\* the benchmark bars the provider delivered, none when the symbol is missing
BenchmarkBars ==
    IF "SPY" \in DOMAIN dataResult.data THEN dataResult.data["SPY"] ELSE <<>>

\* the benchmark bars of a date
BenchmarkBarsOn(d) == {k \in DOMAIN BenchmarkBars : DateOf(BenchmarkBars[k].t) = d}

\* the close of the last benchmark bar of a date
BenchmarkPriceOn(d) ==
    BenchmarkBars[CHOOSE k \in BenchmarkBarsOn(d) : \A j \in BenchmarkBarsOn(d) : j <= k].c

\* C22: at every point, when the benchmark series has a price for the date
\* the benchmark value is initialCapital * price / firstBenchmarkPrice;
\* otherwise it is the previous point's benchmark value, the initial capital
\* at the first point.  The trades play no part in it.
C22_BenchmarkRebased ==
    results # Null =>
        LET pd == results[1].performanceData
        IN  \A k \in DOMAIN pd :
                IF BenchmarkBarsOn(pd[k].date) # {}
                THEN pd[k].sp500 =
                         RDiv(RMul(initialCapital, BenchmarkPriceOn(pd[k].date)),
                              BenchmarkBars[1].c)
                ELSE pd[k].sp500 = (IF k = 1 THEN initialCapital ELSE pd[k - 1].sp500)

\* a curve whose first date has no benchmark price, whose second has one and
\* whose third carries that value forward
C22_Witness ==
    /\ results # Null
    /\ LET pd == results[1].performanceData
       IN  /\ Len(pd) = 3
           /\ BenchmarkBarsOn(pd[1].date) = {}
           /\ pd[1].sp500 = initialCapital
           /\ BenchmarkBarsOn(pd[2].date) # {}
           /\ pd[2].sp500 # initialCapital
           /\ BenchmarkBarsOn(pd[3].date) = {}
           /\ pd[3].sp500 = pd[2].sp500
    /\ allTrades # <<>>


\* the mean of the 5 closes before bar idx (0-based) of a symbol
MeanOfPrecedingCloses(sym, idx) ==
    LET bars == dataResult.data[sym]
    IN  RDiv(RAdd(RAdd(RAdd(RAdd(bars[idx].c, bars[idx - 1].c), bars[idx - 2].c),
                       bars[idx - 3].c), bars[idx - 4].c),
             RInt(5))

\* the close of bar idx (0-based) of a symbol is above the mean of the 5 before
ClosesAboveMean(sym, idx) ==
    RLt(MeanOfPrecedingCloses(sym, idx), dataResult.data[sym][idx + 1].c)

\* at the current bar no symbol of the strategy has a bar that passes the filter
NoBarPassesFilter ==
    /\ AtBar
    /\ useWeeklyBias
    /\ \A sym \in Range(availableSymbols) :
           i < Len(dataResult.data[sym]) => ~ClosesAboveMean(sym, i)

C23_WitnessFilterOff ==
    /\ ~useWeeklyBias
    /\ \E k \in DOMAIN allTrades :
           ~ClosesAboveMean(allTrades[k].symbol, allTrades[k].id[2])


\* the provider delivered more than the 5 bars of the lookback window for sym
HasEnoughBars(sym) ==
    /\ sym \in DOMAIN dataResult.data
    /\ Len(dataResult.data[sym]) > 5

C24_WitnessMissing ==
    /\ RunEnded
    /\ results # Null
    /\ allTrades # <<>>
    /\ \E k \in DOMAIN selectedStrategies :
           \E missing, long \in Range(strategySymbolsOf(selectedStrategies[k])) :
               /\ missing \notin DOMAIN dataResult.data
               /\ HasEnoughBars(long)


\* the selected strategies name a tradable symbol, and the provider delivered
\* no series of more than 5 bars for any of them
AllSeriesTooShort ==
    /\ ~NoTradableSymbol
    /\ dataResult # Null
    /\ \A k \in DOMAIN selectedStrategies :
           \A sym \in Range(strategySymbolsOf(selectedStrategies[k])) :
               ~HasEnoughBars(sym)

\* C25: when the provider returns an empty or too-short series for every
\* requested tradable symbol the run ends with no result and with the
\* data-unavailable error, which is not the error that says no trade was
\* executed.
C25_DataUnavailableError ==
    (RunEnded /\ AllSeriesTooShort) =>
        /\ results = Null
        /\ error = ErrFetch
        /\ error # ErrNoCurve


\* what a call of handleRunBacktest shows of itself to the user
outcome == <<results, error, isLoading>>

\* C26: the simulation is entered only from the wait for the advisory text,
\* which is entered only from the wait for the price bars, and only with bars
\* delivered; a failed bar fetch ends the run with the fetch error and without
\* a simulation step; with no strategy selected no fetch is started and
\* result, error and loading state stay as they were.
C26_FetchesBeforeSimulation ==
    /\ [](pc = "simulate" => (dataResult # Null /\ dataResult.success))
    /\ [][(pc' = "simulate" => pc \in {"awaitAdvice", "simulate"})
          /\ (pc' = "awaitAdvice" => pc = "awaitData")]_vars
    /\ [][(pc = "awaitAdvice" /\ ~dataResult.success) =>
              /\ pc' = "idle"
              /\ error' = ErrFetch
              /\ results' = Null
              /\ allTrades' = <<>>
              /\ dailyPnl' = <<>>]_vars
    /\ [][((pc = "idle" /\ selectedStrategyIds = {}) \/ pc = "alert") =>
              /\ pc' \in {"idle", "alert"}
              /\ outcome' = outcome
              /\ dataResult' = dataResult]_vars

\* handleRunBacktest was called with nothing selected while the result of an
\* earlier run, with trades, was on display
C26_Witness ==
    /\ pc = "alert"
    /\ selectedStrategyIds = {}
    /\ results # Null
    /\ allTrades # <<>>
    /\ ~isLoading

\* a run ended on a failed bar fetch
C26_WitnessFailedFetch ==
    /\ RunEnded
    /\ ~dataResult.success
    /\ error = ErrFetch


\* C27: every trade carries an integer leverage between 2 and the maximum
\* configured for the asset class of its symbol, and a target ratio rr with
\* 2.5 <= rr < 5.
C27_TradeLeverageWithinBounds ==
    \A k \in DOMAIN allTrades :
        LET trade == allTrades[k]
        IN  /\ trade.leverage \in Int
            /\ 2 <= trade.leverage
            /\ trade.leverage <= ASSET_LEVERAGE_MAP[AssetClassOf(trade.symbol)]
            /\ RLe(<<5, 2>>, trade.rr)
            /\ RLt(trade.rr, <<5, 1>>)

\* a result holds a stock trade at the least leverage and a commodity trade
\* above it
C27_Witness ==
    /\ results # Null
    /\ \E k, n \in DOMAIN results[1].allTrades :
           LET stock == results[1].allTrades[k]
               commodity == results[1].allTrades[n]
           IN  /\ stock.assetClass = "US Stocks"
               /\ stock.leverage = 2
               /\ commodity.assetClass = "Commodities"
               /\ commodity.leverage > 5
               /\ commodity.leverage < 20


\* the run's inputs are in range: a positive initial capital, commission and
\* slippage not negative, every stop-loss percent between 0 and 100, every
\* delivered open price positive
InputsInRange ==
    /\ RLt(Zero, initialCapital)
    /\ RLe(Zero, commission)
    /\ RLe(Zero, slippage)
    /\ \A k \in DOMAIN selectedStrategies :
           /\ RLt(Zero, selectedStrategies[k].stopLossPercentage)
           /\ RLt(selectedStrategies[k].stopLossPercentage, RInt(100))
    /\ \A k \in DOMAIN allTrades : RLt(Zero, EntryBarOf(allTrades[k]).o)

\* C28: with inputs in range every trade has its stop below its entry and its
\* entry below its target, and a trade that left at its stop has a negative
\* pnl and the tag LOSS.
C28_StopBelowEntryBelowTarget ==
    InputsInRange =>
        \A k \in DOMAIN allTrades :
            LET trade == allTrades[k]
            IN  /\ RLt(trade.stopLossPrice, trade.entryPrice)
                /\ RLt(trade.entryPrice, trade.takeProfitPrice)
                /\ trade.exitReason = "SL" =>
                       (RLt(trade.pnl, Zero) /\ trade.type = "LOSS")

\* a trade left at its stop without commission or slippage, and so lost only
\* the stop distance
C28_Witness ==
    /\ InputsInRange
    /\ commission = Zero
    /\ slippage = Zero
    /\ \E k \in DOMAIN allTrades :
           /\ allTrades[k].exitReason = "SL"
           /\ allTrades[k].exitPrice = allTrades[k].stopLossPrice
           /\ RLt(allTrades[k].pnl, Zero)


\* C29: no two trades of a result's trade list have the same id, whatever the
\* number of selected strategies and symbols.
C29_TradeIdsUnique ==
    results # Null =>
        \A k, n \in DOMAIN results[1].allTrades :
            k # n => results[1].allTrades[k].id # results[1].allTrades[n].id

\* the part of C29 about one strategy: a step that emits a trade moves on to
\* the next bar or the next strategy, so a strategy emits at most one trade
\* for a bar index
C29_OneTradePerBar ==
    [][Len(allTrades') > Len(allTrades) =>
          /\ Len(allTrades') = Len(allTrades) + 1
          /\ (sIdx' = sIdx /\ i' = i + 1) \/ (sIdx' > sIdx /\ i' = 5)]_vars


\* the dates of the bars at index >= 5 of the driving series of every selected
\* strategy that has an available symbol
TimelineDates ==
    UNION {LET available == availableSymbolsOf(selectedStrategies[k], dataResult.data)
               bars == IF available = <<>> THEN <<>> ELSE dataResult.data[available[1]]
           IN  {DateOf(bars[j].t) : j \in 6..Len(bars)} :
           k \in DOMAIN selectedStrategies}

\* what dailyPnl holds for a date, 0 for a date it does not hold
DailyValue(obj, d) == IF DailyHas(obj, d) THEN DailyGet(obj, d) ELSE Zero

\* C30: the curve of a result has exactly one point for each date of a bar at
\* index >= 5 of the driving series of a strategy with an available symbol;
\* the P&L of a date changes only in a step that emits a trade at a bar of
\* that date, and a point whose date has no P&L has the portfolio value of the
\* point before it (the initial capital for the first point).
C30_OnePointPerTimelineDate ==
    /\ [](results # Null =>
              LET pd == results[1].performanceData
              IN  /\ {pd[k].date : k \in DOMAIN pd} = TimelineDates
                  /\ Len(pd) = Cardinality(TimelineDates)
                  /\ \A k \in DOMAIN pd :
                         DailyValue(dailyPnl, pd[k].date) = Zero =>
                             pd[k].strategy =
                                 (IF k = 1 THEN initialCapital ELSE pd[k - 1].strategy))
    /\ [][\A k \in DOMAIN dailyPnl' :
              dailyPnl'[k][2] # DailyValue(dailyPnl, dailyPnl'[k][1]) =>
                  /\ AtBar
                  /\ Len(allTrades') > Len(allTrades)
                  /\ dailyPnl'[k][1] = date]_vars

\* a curve of two dates with a trade on the first and none on the second,
\* whose point repeats the value of the first
C30_Witness ==
    /\ results # Null
    /\ Len(allTrades) = 1
    /\ LET pd == results[1].performanceData
       IN  /\ Len(pd) = 2
           /\ pd[1].strategy # initialCapital
           /\ DailyValue(dailyPnl, pd[2].date) = Zero
           /\ pd[2].strategy = pd[1].strategy

====
